---------------------------- MODULE Spec2Model ----------------------------
(***************************************************************************)
(* A model of the sysfs CPU readers (sysfs/cpu_system_devices.go) and of   *)
(* the zoneinfo reader (zoneinfo.go) of procfs.                            *)
(*                                                                         *)
(* Strings are sequences of one-character strings; a name the code only    *)
(* ever compares as a whole ("kernel_max", "cpufreq", a path prefix) is    *)
(* kept as one element, so that concatenation is \o throughout.            *)
(*                                                                         *)
(* Go's int64 is modelled as an IntBits-bit two's complement integer:      *)
(* strconv.ParseInt clamps at MaxInt64 and i++ wraps from MaxInt64 to      *)
(* MinInt64 exactly as in the code, at a width TLC can enumerate.          *)
(***************************************************************************)
EXTENDS Integers, Sequences, FiniteSets, TLC

VARIABLES
    \* ---- parseCPURange run on its own (SpecRange)
    rin,        \* the input: [valid, pairs, value]
    rng,        \* the loop state of parseCPURange
    \* ---- parseZoneInfo (SpecZone)
    zin,        \* the input: [lines, text]
    zst,        \* the state of parseZoneInfo
    \* ---- NewCPUInfo (Spec)
    fs,             \* the filesystem: path -> node
    pc,             \* where the call is: idle, generic, cpufreq, topology,
                    \* thermal_throttle, done (returned) or panic
    stage,          \* the last parser the call entered
    err,            \* NewCPUInfo's err
    cpuInformation, \* NewCPUInfo's cpuInformation
    gen,            \* locals of parseCPUInfoGeneric
    fan,            \* locals of the running per-CPU parser
    reads,          \* the ReadDir and ReadFile calls of this call, in order
    logged,         \* what this call handed to log.Debugln, in order
    calls,          \* calls of NewCPUInfo begun
    prev            \* what the previous call returned

rangeVars == <<rin, rng>>
zoneVars  == <<zin, zst>>
cpuVars   == <<fs, pc, stage, err, cpuInformation, gen, fan, reads, logged,
               calls, prev>>
vars      == <<rin, rng, zin, zst, fs, pc, stage, err, cpuInformation, gen,
               fan, reads, logged, calls, prev>>

---------------------------------------------------------------------------
\* Bounds of the model.

\* Width of the modelled int64 (64 in the code).
IntBits == 4
\* Elements a slice can hold before the Go runtime runs out of memory.
MaxSlice == 8
\* Comma-separated components of a range string.
MaxComps == 2
\* Lines of a zoneinfo file.
MaxLines == 2
\* CPU directories cpu0 .. cpu<MaxCPU> may exist.
MaxCPU == 2
\* Calls of a reader on the same, unchanged filesystem.
NumCalls == 2

RECURSIVE Pow2(_)
Pow2(n) == IF n = 0 THEN 1 ELSE 2 * Pow2(n - 1)

MaxInt64 == Pow2(IntBits - 1) - 1
MinInt64 == 0 - Pow2(IntBits - 1)

---------------------------------------------------------------------------
\* Strings.

Digit == {"0", "1", "2", "3", "4", "5", "6", "7", "8", "9"}

DigitVal(c) ==
    CASE c = "0" -> 0 [] c = "1" -> 1 [] c = "2" -> 2 [] c = "3" -> 3
      [] c = "4" -> 4 [] c = "5" -> 5 [] c = "6" -> 6 [] c = "7" -> 7
      [] c = "8" -> 8 [] c = "9" -> 9

DigitChar(d) ==
    CASE d = 0 -> "0" [] d = 1 -> "1" [] d = 2 -> "2" [] d = 3 -> "3"
      [] d = 4 -> "4" [] d = 5 -> "5" [] d = 6 -> "6" [] d = 7 -> "7"
      [] d = 8 -> "8" [] d = 9 -> "9"

Min(a, b) == IF a < b THEN a ELSE b

\* unicode.IsSpace, on the characters the model uses.
IsSpace(c) == c \in {" ", "\n", "\t", "\r"}

RECURSIVE TrimLeft(_)
TrimLeft(s) == IF s # <<>> /\ IsSpace(Head(s)) THEN TrimLeft(Tail(s)) ELSE s

RECURSIVE TrimRightSpace(_)
TrimRightSpace(s) ==
    IF s # <<>> /\ IsSpace(s[Len(s)])
    THEN TrimRightSpace(SubSeq(s, 1, Len(s) - 1))
    ELSE s

\* strings.TrimSpace
TrimSpace(s) == TrimRightSpace(TrimLeft(s))

\* strings.Split(s, sep) for a one-character sep: always at least one piece.
RECURSIVE SplitFrom(_, _, _)
SplitFrom(s, sep, cur) ==
    IF s = <<>> THEN <<cur>>
    ELSE IF Head(s) = sep THEN <<cur>> \o SplitFrom(Tail(s), sep, <<>>)
    ELSE SplitFrom(Tail(s), sep, Append(cur, Head(s)))

Split(s, sep) == SplitFrom(s, sep, <<>>)

\* fmt.Sprintf("%d", n)
RECURSIVE FormatNat(_)
FormatNat(n) ==
    IF n < 10 THEN <<DigitChar(n)>>
    ELSE Append(FormatNat(n \div 10), DigitChar(n % 10))

FormatInt(n) == IF n < 0 THEN <<"-">> \o FormatNat(0 - n) ELSE FormatNat(n)

\* The value of a digit string, saturated just above the int64 range.
RECURSIVE DecValue(_, _)
DecValue(s, acc) ==
    IF s = <<>> THEN acc
    ELSE DecValue(Tail(s), Min(acc * 10 + DigitVal(Head(s)), MaxInt64 + 2))

\* strconv.ParseInt(s, 10, 64): the value and the error ("nil", "syntax",
\* "range").  A syntax error yields 0; a range error yields the nearest bound.
ParseInt(s) ==
    LET signed == s # <<>> /\ s[1] \in {"+", "-"}
        neg    == s # <<>> /\ s[1] = "-"
        body   == IF signed THEN Tail(s) ELSE s
    IN  IF body = <<>> \/ \E k \in 1..Len(body) : body[k] \notin Digit
        THEN [val |-> 0, err |-> "syntax"]
        ELSE LET u == DecValue(body, 0)
             IN  IF ~neg /\ u > MaxInt64
                 THEN [val |-> MaxInt64, err |-> "range"]
                 ELSE IF neg /\ u > MaxInt64 + 1
                 THEN [val |-> MinInt64, err |-> "range"]
                 ELSE [val |-> IF neg THEN 0 - u ELSE u, err |-> "nil"]

\* i++ on an int64.
WrapInc(i) == IF i = MaxInt64 THEN MinInt64 ELSE i + 1

---------------------------------------------------------------------------
\* parseCPURange.

\* A result slice that is kept between calls instead of starting out nil.
StaleSlice == prev.info.CPUInfoGeneric.Online

\* var cpuSlice []int64
NilSlice == <<>>

\* The state on entry: the components still to expand and an empty result.
RangeStart(value) ==
    [pc |-> "component", comps |-> Split(value, ","), cpuSlice |-> NilSlice,
     i |-> 0, last |-> 0, logged |-> <<>>]

LogIf(log, r) == IF r.err # "nil" THEN Append(log, r.err) ELSE log

\* The head of the outer loop: split the next component on "-" and parse
\* both ends.  Indexing the second part of a component without "-" panics.
RangeComponent(r) ==
    IF r.comps = <<>> THEN [r EXCEPT !.pc = "done"]
    ELSE LET parts == Split(Head(r.comps), "-")
             first == ParseInt(parts[1])
         IN  IF Len(parts) < 2
             THEN [r EXCEPT !.pc = "panic", !.logged = LogIf(@, first)]
             ELSE LET last == ParseInt(parts[2])
                  IN  [r EXCEPT !.pc = "loop", !.comps = Tail(@),
                                !.i = first.val, !.last = last.val,
                                !.logged = LogIf(LogIf(@, first), last)]

\* RangeLoop with the upper bound excluded (i < last).
RangeLoopExclusive(r) ==
    IF r.i < r.last
    THEN IF Len(r.cpuSlice) >= MaxSlice
         THEN [r EXCEPT !.pc = "oom"]
         ELSE [r EXCEPT !.cpuSlice = Append(@, r.i), !.i = WrapInc(@)]
    ELSE [r EXCEPT !.pc = "component"]

\* for i := first; i <= last; i++ { cpuSlice = append(cpuSlice, i) }
\* An append beyond MaxSlice elements ends the process (out of memory).
RangeLoop(r) ==
    IF r.i <= r.last
    THEN IF Len(r.cpuSlice) >= MaxSlice
         THEN [r EXCEPT !.pc = "oom"]
         ELSE [r EXCEPT !.cpuSlice = Append(@, r.i), !.i = WrapInc(@)]
    ELSE [r EXCEPT !.pc = "component"]

RangeStep(r) == IF r.pc = "component" THEN RangeComponent(r) ELSE RangeLoop(r)

\* parseCPURange is not running.
RangeOff == [pc |-> "off"]

\* The whole call.
RECURSIVE RangeRun(_)
RangeRun(r) == IF r.pc \in {"done", "panic", "oom"} THEN r ELSE RangeRun(RangeStep(r))

parseCPURange(value) == RangeRun(RangeStart(value))

---------------------------------------------------------------------------
\* parseZoneInfo.

\* strings.HasPrefix
HasPrefix(s, prefix) ==
    Len(s) >= Len(prefix) /\ SubSeq(s, 1, Len(prefix)) = prefix

\* strings.Fields: the maximal runs of non-space characters, in order.
RECURSIVE FieldsFrom(_, _)
FieldsFrom(s, cur) ==
    IF s = <<>> THEN (IF cur = <<>> THEN <<>> ELSE <<cur>>)
    ELSE IF IsSpace(Head(s))
         THEN (IF cur = <<>> THEN <<>> ELSE <<cur>>) \o FieldsFrom(Tail(s), <<>>)
         ELSE FieldsFrom(Tail(s), Append(cur, Head(s)))

Fields(s) == FieldsFrom(s, <<>>)

\* strings.TrimRight(s, cutset) for a one-character cutset.
RECURSIVE TrimRight(_, _)
TrimRight(s, c) ==
    IF s # <<>> /\ s[Len(s)] = c THEN TrimRight(SubSeq(s, 1, Len(s) - 1), c) ELSE s

\* bufio.ScanLines on the unread input: the next line, without its line end
\* and without one trailing carriage return, and the input after it.
RECURSIVE UpToNewline(_)
UpToNewline(s) ==
    IF s = <<>> \/ Head(s) = "\n" THEN <<>> ELSE <<Head(s)>> \o UpToNewline(Tail(s))

DropCR(s) == IF s # <<>> /\ s[Len(s)] = "\r" THEN SubSeq(s, 1, Len(s) - 1) ELSE s

ScanLine(s) ==
    LET raw == UpToNewline(s)
    IN  [line |-> DropCR(raw), rest |-> SubSeq(s, Len(raw) + 2, Len(s))]

NodePrefix == <<"N", "o", "d", "e">>

\* The reader's state: before the first call (at = "idle") or where no call
\* is modelled (at = "off").
ZoneAt(at) ==
    [pc |-> at, rest |-> <<>>, zoneInfo |-> <<>>, err |-> "nil", calls |-> 0,
     prev |-> [zoneInfo |-> <<>>, err |-> "nil"]]

\* FS.NewZoneInfo: os.Open(fs.Path("zoneinfo")), and on success the entry of
\* parseZoneInfo: zoneInfo = []ZoneInfo{}; scanner = bufio.NewScanner(r).
ZoneStart(z, in) ==
    IF in.open
    THEN [z EXCEPT !.pc = "scan", !.rest = in.text, !.zoneInfo = <<>>,
                   !.err = "nil", !.calls = @ + 1,
                   !.prev = IF z.pc = "done"
                            THEN [zoneInfo |-> z.zoneInfo, err |-> z.err] ELSE @]
    ELSE [z EXCEPT !.pc = "done", !.rest = <<>>, !.zoneInfo = <<>>,
                   !.err = "open", !.calls = @ + 1,
                   !.prev = IF z.pc = "done"
                            THEN [zoneInfo |-> z.zoneInfo, err |-> z.err] ELSE @]

\* ZoneScan taking the zone from the third field, the word "zone".
ZoneScanThirdField(z) ==
    IF z.rest = <<>> THEN [z EXCEPT !.pc = "done"]
    ELSE LET sc    == ScanLine(z.rest)
             parts == Fields(sc.line)
         IN  IF ~HasPrefix(sc.line, NodePrefix)
             THEN [z EXCEPT !.rest = sc.rest]
             ELSE IF Len(parts) < 4
             THEN [z EXCEPT !.pc = "panic", !.rest = sc.rest]
             ELSE [z EXCEPT !.rest = sc.rest,
                            !.zoneInfo = Append(@, [Node |-> TrimRight(parts[2], ","),
                                                    Zone |-> TrimRight(parts[3], ",")])]

\* One iteration of  for scanner.Scan() { ... }.  The reader delivers the
\* whole input, so Scan ends at its end and scanner.Err() is nil.  Indexing
\* parts[1] or parts[3] beyond the fields of the line panics.
ZoneScan(z) ==
    IF z.rest = <<>> THEN [z EXCEPT !.pc = "done"]
    ELSE LET sc    == ScanLine(z.rest)
             parts == Fields(sc.line)
         IN  IF ~HasPrefix(sc.line, NodePrefix)
             THEN [z EXCEPT !.rest = sc.rest]
             ELSE IF Len(parts) < 4
             THEN [z EXCEPT !.pc = "panic", !.rest = sc.rest]
             ELSE [z EXCEPT !.rest = sc.rest,
                            !.zoneInfo = Append(@, [Node |-> TrimRight(parts[2], ","),
                                                    Zone |-> TrimRight(parts[4], ",")])]

---------------------------------------------------------------------------
\* The filesystem.

\* A node is a directory (ok: it can be listed; entries: its listing, sorted
\* by name as ioutil.ReadDir returns it) or a file (ok: it can be read).
FileNode(ok, content) == [kind |-> "file", ok |-> ok, entries |-> <<>>, content |-> content]
DirNode(ok, entries)  == [kind |-> "dir", ok |-> ok, entries |-> entries, content |-> <<>>]

\* The mount point of NewFS(DefaultMountPoint).
MountPoint == "/sys"

\* fs.Path(p): the mount point joined with p.
Path(rel) == <<MountPoint, "/">> \o rel

\* ioutil.ReadDir(path)
ReadDir(path) ==
    IF path \in DOMAIN fs /\ fs[path].kind = "dir" /\ fs[path].ok
    THEN [failed |-> FALSE, files |-> fs[path].entries]
    ELSE [failed |-> TRUE, files |-> <<>>]

\* ioutil.ReadFile(path): a directory, a missing file and a file without
\* read permission all fail.
ReadFile(path) ==
    IF path \in DOMAIN fs /\ fs[path].kind = "file" /\ fs[path].ok
    THEN [failed |-> FALSE, content |-> fs[path].content]
    ELSE [failed |-> TRUE, content |-> <<>>]

---------------------------------------------------------------------------
\* The records.

Nil == [kind |-> "nil", path |-> <<>>]

\* fmt.Errorf("cannot access %s, %s", path, err)
AccessError(path) == [kind |-> "cannot access", path |-> path]

\* fmt.Errorf("cannot access %s dir %s", path, err)
AccessDirError(path) == [kind |-> "cannot access dir", path |-> path]

\* CPUInfoGeneric{}
ZeroCPUInfoGeneric ==
    [KernelMax |-> 0, Offline |-> <<>>, Online |-> <<>>, Possible |-> <<>>,
     Present |-> <<>>]

\* CPUFreq{}
ZeroCPUFreq ==
    [CPUInfoCurFreq |-> 0, CPUInfoMaxFreq |-> 0, CPUInfoMinFreq |-> 0,
     CPUInfoTransitionLatency |-> 0, ScalingAvailableGovernors |-> <<>>,
     ScalingCurFreq |-> 0, ScalingDriver |-> <<>>, ScalingGovernor |-> <<>>,
     ScalingMaxFreq |-> 0, ScalingMinFreq |-> 0, ScalingSetspeed |-> 0]

\* CPUTopology{}
ZeroCPUTopology ==
    [CoreID |-> 0, CoreSiblings |-> <<>>, CoreSiblingsList |-> <<>>,
     PhysicalPackageID |-> 0, ThreadSiblings |-> <<>>, ThreadSiblingsList |-> <<>>]

\* CPUThermalThrottle{}
ZeroCPUThermalThrottle == [CoreThrottleCount |-> 0, PackageThrottleCount |-> 0]

\* CPUInfo{}
ZeroCPUInfo ==
    [CPUInfoGeneric |-> ZeroCPUInfoGeneric, CPUFreqSlice |-> <<>>,
     CPUTopologySlice |-> <<>>, CPUThermalThrottleSlice |-> <<>>]

\* The three per-CPU parsers, in the order NewCPUInfo calls them.
Subsystems == <<"cpufreq", "topology", "thermal_throttle">>

ZeroOf(sub) ==
    CASE sub = "cpufreq" -> ZeroCPUFreq
      [] sub = "topology" -> ZeroCPUTopology
      [] sub = "thermal_throttle" -> ZeroCPUThermalThrottle

SliceOf(sub) ==
    CASE sub = "cpufreq" -> "CPUFreqSlice"
      [] sub = "topology" -> "CPUTopologySlice"
      [] sub = "thermal_throttle" -> "CPUThermalThrottleSlice"

NoField == [field |-> "", int |-> FALSE]

\* switch label := fileDir.Name() of parseCPUFreq
FreqField(label) ==
    CASE label = <<"cpuinfo_cur_freq">> -> [field |-> "CPUInfoCurFreq", int |-> TRUE]
      [] label = <<"cpuinfo_max_freq">> -> [field |-> "CPUInfoMaxFreq", int |-> TRUE]
      [] label = <<"cpuinfo_min_freq">> -> [field |-> "CPUInfoMinFreq", int |-> TRUE]
      [] label = <<"cpuinfo_transition_latency">> ->
             [field |-> "CPUInfoTransitionLatency", int |-> TRUE]
      [] label = <<"scaling_available_governors">> ->
             [field |-> "ScalingAvailableGovernors", int |-> FALSE]
      [] label = <<"scaling_cur_freq">> -> [field |-> "ScalingCurFreq", int |-> TRUE]
      [] label = <<"scaling_driver">> -> [field |-> "ScalingDriver", int |-> FALSE]
      [] label = <<"scaling_governor">> -> [field |-> "ScalingGovernor", int |-> FALSE]
      [] label = <<"scaling_max_freq">> -> [field |-> "ScalingMaxFreq", int |-> TRUE]
      [] label = <<"scaling_min_freq">> -> [field |-> "ScalingMinFreq", int |-> TRUE]
      [] label = <<"scaling_setspeed">> -> [field |-> "ScalingSetspeed", int |-> TRUE]
      [] OTHER -> NoField

\* switch label := fileDir.Name() of parseCPUTopology
TopologyField(label) ==
    CASE label = <<"core_id">> -> [field |-> "CoreID", int |-> TRUE]
      [] label = <<"core_siblings">> -> [field |-> "CoreSiblings", int |-> FALSE]
      [] label = <<"core_siblings_list">> -> [field |-> "CoreSiblingsList", int |-> FALSE]
      [] label = <<"physical_package_id">> -> [field |-> "PhysicalPackageID", int |-> TRUE]
      [] label = <<"thread_siblings">> -> [field |-> "ThreadSiblings", int |-> FALSE]
      [] label = <<"thread_siblings_list">> ->
             [field |-> "ThreadSiblingsList", int |-> FALSE]
      [] OTHER -> NoField

\* switch label := fileDir.Name() of parseCPUThermalThrottle
ThermalThrottleField(label) ==
    CASE label = <<"core_throttle_count">> -> [field |-> "CoreThrottleCount", int |-> TRUE]
      [] label = <<"package_throttle_count">> ->
             [field |-> "PackageThrottleCount", int |-> TRUE]
      [] OTHER -> NoField

FieldOf(sub, label) ==
    CASE sub = "cpufreq" -> FreqField(label)
      [] sub = "topology" -> TopologyField(label)
      [] sub = "thermal_throttle" -> ThermalThrottleField(label)

\* The names parseCPUInfoGeneric's switch knows.
GenericLabels ==
    {<<"kernel_max">>, <<"offline">>, <<"online">>, <<"possible">>, <<"present">>}

GenericField(label) ==
    CASE label = <<"kernel_max">> -> "KernelMax"
      [] label = <<"offline">> -> "Offline"
      [] label = <<"online">> -> "Online"
      [] label = <<"possible">> -> "Possible"
      [] label = <<"present">> -> "Present"

\* path := fs.Path("devices/system/cpu")
CPURoot == Path(<<"devices", "/", "system", "/", "cpu">>)

\* fs.Path("devices/system/cpu/cpu" + fmt.Sprintf("%d", cpuNum) + "/" + sub)
SubsystemPath(cpuNum, sub) ==
    Path(<<"devices", "/", "system", "/", "cpu", "/", "cpu">>
         \o FormatInt(cpuNum) \o <<"/", sub>>)

\* path + "/" + fileDir.Name()
FilePath(path, name) == path \o <<"/">> \o name

\* A slice sized by the largest CPU number instead of by len(online).
MakeSliceByMax(sub, online) ==
    LET top == IF online = <<>> THEN 0
               ELSE 1 + CHOOSE m \in {online[k] : k \in 1..Len(online)} :
                          \A k \in 1..Len(online) : online[k] <= m
    IN  [k \in 1..top |-> ZeroOf(sub)]

\* make([]T, len(online))
MakeSlice(sub, online) == [k \in 1..Len(online) |-> ZeroOf(sub)]

\* The locals of a per-CPU parser on entry.
FanStart(sub, online) ==
    [online |-> online, slice |-> MakeSlice(sub, online), err |-> Nil,
     ci |-> 1, inDir |-> FALSE, path |-> <<>>, files |-> <<>>, fi |-> 1]

FanIdle ==
    [online |-> <<>>, slice |-> <<>>, err |-> Nil,
     ci |-> 1, inDir |-> FALSE, path |-> <<>>, files |-> <<>>, fi |-> 1]

GenIdle == [info |-> ZeroCPUInfoGeneric, err |-> Nil, files |-> <<>>, k |-> 1]

---------------------------------------------------------------------------
\* NewCPUInfo and its parsers.

ReadOp(op, path) == [op |-> op, path |-> path]

\* FS.NewCPUInfo up to the directory listing of parseCPUInfoGeneric:
\*   var err error; cpuInformation := CPUInfo{}
\*   cpuInformation.CPUInfoGeneric, err = parseCPUInfoGeneric(fs)
NewCPUInfo ==
    /\ pc = "idle" \/ (pc = "done" /\ calls < NumCalls)
    /\ calls' = calls + 1
    /\ prev' = IF pc = "done" THEN [info |-> cpuInformation, err |-> err] ELSE prev
    /\ stage' = "generic"
    /\ fan' = FanIdle
    /\ logged' = <<>>
    /\ reads' = <<ReadOp("ReadDir", CPURoot)>>
    /\ cpuInformation' = ZeroCPUInfo
    /\ LET d == ReadDir(CPURoot)
       IN  IF d.failed
           THEN /\ err' = AccessDirError(CPURoot)
                /\ pc' = "done"
                /\ gen' = GenIdle
           ELSE /\ err' = Nil
                /\ pc' = "generic"
                /\ gen' = [info |-> ZeroCPUInfoGeneric, err |-> Nil,
                           files |-> d.files, k |-> 1]
    /\ UNCHANGED <<fs, rangeVars, zoneVars>>

\* The body of the switch of parseCPUInfoGeneric for a file that was read:
\* the enumeration, what is logged, and whether parseCPURange returned.  The
\* err that ParseInt assigns is the one declared with fileContents inside the
\* loop body, not the err of the function that the final return reads.
GenericDispatch(info, label, value) ==
    IF label = <<"kernel_max">>
    THEN LET n == ParseInt(value)
         IN  [info |-> [info EXCEPT !.KernelMax = n.val],
              logged |-> LogIf(<<>>, n), returned |-> TRUE]
    ELSE IF label \in GenericLabels
    THEN LET r == parseCPURange(value)
         IN  [info |-> [info EXCEPT ![GenericField(label)] = r.cpuSlice],
              logged |-> r.logged, returned |-> r.pc = "done"]
    ELSE [info |-> info, logged |-> <<>>, returned |-> TRUE]

\* parseCPUInfoGeneric_File without the  if fileDir.IsDir() { continue }.
parseCPUInfoGeneric_FileNoSkip ==
    /\ pc = "generic"
    /\ gen.k <= Len(gen.files)
    /\ LET e == gen.files[gen.k]
           p == FilePath(CPURoot, e.name)
           r == ReadFile(p)
           d == GenericDispatch(gen.info, e.name, TrimSpace(r.content))
       IN  /\ reads' = Append(reads, ReadOp("ReadFile", p))
           /\ IF r.failed
              THEN /\ cpuInformation' =
                         [cpuInformation EXCEPT !.CPUInfoGeneric = gen.info]
                   /\ err' = AccessError(p)
                   /\ pc' = "done"
                   /\ UNCHANGED <<gen, logged>>
              ELSE /\ gen' = [gen EXCEPT !.info = d.info, !.k = @ + 1]
                   /\ logged' = logged \o d.logged
                   /\ pc' = IF d.returned THEN pc ELSE "panic"
                   /\ UNCHANGED <<err, cpuInformation>>
    /\ UNCHANGED <<fs, stage, fan, calls, prev, rangeVars, zoneVars>>

\* parseCPUInfoGeneric_File with NewCPUInfo calling parseCPUFreq without the
\* if err != nil { return cpuInformation, err }  after parseCPUInfoGeneric.
parseCPUInfoGeneric_FileUnchecked ==
    /\ pc = "generic"
    /\ gen.k <= Len(gen.files)
    /\ LET e == gen.files[gen.k]
           p == FilePath(CPURoot, e.name)
           r == ReadFile(p)
           d == GenericDispatch(gen.info, e.name, TrimSpace(r.content))
       IN  IF e.isDir
           THEN /\ gen' = [gen EXCEPT !.k = @ + 1]
                /\ UNCHANGED <<pc, stage, fan, err, cpuInformation, reads, logged>>
           ELSE /\ reads' = Append(reads, ReadOp("ReadFile", p))
                /\ IF r.failed
                   THEN /\ cpuInformation' =
                              [cpuInformation EXCEPT !.CPUInfoGeneric = gen.info]
                        /\ err' = AccessError(p)
                        /\ pc' = "cpufreq"
                        /\ stage' = "cpufreq"
                        /\ fan' = FanStart("cpufreq", gen.info.Online)
                        /\ UNCHANGED <<gen, logged>>
                   ELSE /\ gen' = [gen EXCEPT !.info = d.info, !.k = @ + 1]
                        /\ logged' = logged \o d.logged
                        /\ pc' = IF d.returned THEN pc ELSE "panic"
                        /\ UNCHANGED <<stage, fan, err, cpuInformation>>
    /\ UNCHANGED <<fs, calls, prev, rangeVars, zoneVars>>

\* One iteration of  for _, fileDir := range files  in parseCPUInfoGeneric.
parseCPUInfoGeneric_File ==
    /\ pc = "generic"
    /\ gen.k <= Len(gen.files)
    /\ LET e == gen.files[gen.k]
           p == FilePath(CPURoot, e.name)
           r == ReadFile(p)
           d == GenericDispatch(gen.info, e.name, TrimSpace(r.content))
       IN  IF e.isDir
           THEN /\ gen' = [gen EXCEPT !.k = @ + 1]
                /\ UNCHANGED <<pc, err, cpuInformation, reads, logged>>
           ELSE /\ reads' = Append(reads, ReadOp("ReadFile", p))
                /\ IF r.failed
                   THEN /\ cpuInformation' =
                              [cpuInformation EXCEPT !.CPUInfoGeneric = gen.info]
                        /\ err' = AccessError(p)
                        /\ pc' = "done"
                        /\ UNCHANGED <<gen, logged>>
                   ELSE /\ gen' = [gen EXCEPT !.info = d.info, !.k = @ + 1]
                        /\ logged' = logged \o d.logged
                        /\ pc' = IF d.returned THEN pc ELSE "panic"
                        /\ UNCHANGED <<err, cpuInformation>>
    /\ UNCHANGED <<fs, stage, fan, calls, prev, rangeVars, zoneVars>>

\* return cpuInfoGeneric, err  and, in NewCPUInfo, the check of that err and
\* the call of parseCPUFreq.
parseCPUInfoGeneric_Return ==
    /\ pc = "generic"
    /\ gen.k > Len(gen.files)
    /\ cpuInformation' = [cpuInformation EXCEPT !.CPUInfoGeneric = gen.info]
    /\ err' = gen.err
    /\ IF gen.err # Nil
       THEN /\ pc' = "done"
            /\ UNCHANGED <<stage, fan>>
       ELSE /\ pc' = "cpufreq"
            /\ stage' = "cpufreq"
            /\ fan' = FanStart("cpufreq", gen.info.Online)
    /\ UNCHANGED <<fs, gen, reads, logged, calls, prev, rangeVars, zoneVars>>

\* After a file: the next file, or the next CPU after the last one.
FanAdvance(f) ==
    IF f.fi = Len(f.files)
    THEN [f EXCEPT !.inDir = FALSE, !.ci = @ + 1]
    ELSE [f EXCEPT !.fi = @ + 1]

\* slice[cpuNum] is in range.
InRange(slice, cpuNum) == 0 <= cpuNum /\ cpuNum < Len(slice)

\* slice[cpuNum].field = v  (Go slices are indexed from 0).
SetField(slice, cpuNum, field, v) ==
    [slice EXCEPT ![cpuNum + 1] = [@ EXCEPT ![field] = v]]

\* FanOut_ReadDir returning the ReadDir error instead of skipping the CPU.
FanOut_ReadDirFatal(sub) ==
    /\ pc = sub
    /\ ~fan.inDir
    /\ fan.ci <= Len(fan.online)
    /\ LET path == SubsystemPath(fan.online[fan.ci], sub)
           d    == ReadDir(path)
       IN  /\ reads' = Append(reads, ReadOp("ReadDir", path))
           /\ IF d.failed
              THEN /\ cpuInformation' =
                         [cpuInformation EXCEPT ![SliceOf(sub)] = fan.slice]
                   /\ err' = AccessDirError(path)
                   /\ pc' = "done"
                   /\ UNCHANGED fan
              ELSE /\ fan' = IF d.files = <<>>
                             THEN [fan EXCEPT !.ci = @ + 1]
                             ELSE [fan EXCEPT !.inDir = TRUE, !.path = path,
                                              !.files = d.files, !.fi = 1]
                   /\ UNCHANGED <<pc, err, cpuInformation>>
    /\ UNCHANGED <<fs, stage, gen, logged, calls, prev, rangeVars, zoneVars>>

\* files, err := ioutil.ReadDir(path); if err != nil { continue }
FanOut_ReadDir(sub) ==
    /\ pc = sub
    /\ ~fan.inDir
    /\ fan.ci <= Len(fan.online)
    /\ LET path == SubsystemPath(fan.online[fan.ci], sub)
           d    == ReadDir(path)
       IN  /\ reads' = Append(reads, ReadOp("ReadDir", path))
           /\ fan' = IF d.failed \/ d.files = <<>>
                     THEN [fan EXCEPT !.ci = @ + 1]
                     ELSE [fan EXCEPT !.inDir = TRUE, !.path = path,
                                      !.files = d.files, !.fi = 1]
    /\ UNCHANGED <<fs, pc, stage, err, cpuInformation, gen, logged, calls, prev,
                   rangeVars, zoneVars>>

\* FanOut_File skipping a file that cannot be read instead of returning.
FanOut_FileSkipUnreadable(sub) ==
    /\ pc = sub
    /\ fan.inDir
    /\ LET e      == fan.files[fan.fi]
           p      == FilePath(fan.path, e.name)
           r      == ReadFile(p)
           value  == TrimSpace(r.content)
           f      == FieldOf(sub, e.name)
           cpuNum == fan.online[fan.ci]
           n      == ParseInt(value)
       IN  /\ reads' = Append(reads, ReadOp("ReadFile", p))
           /\ IF r.failed \/ f = NoField
              THEN /\ fan' = FanAdvance(fan)
                   /\ UNCHANGED <<pc, err, cpuInformation, logged>>
              ELSE IF ~InRange(fan.slice, cpuNum)
              THEN /\ pc' = "panic"
                   /\ UNCHANGED <<fan, err, cpuInformation, logged>>
              ELSE /\ fan' = FanAdvance(
                        [fan EXCEPT !.slice = SetField(@, cpuNum, f.field,
                                                 IF f.int THEN n.val ELSE value)])
                   /\ logged' = IF f.int THEN LogIf(logged, n) ELSE logged
                   /\ UNCHANGED <<pc, err, cpuInformation>>
    /\ UNCHANGED <<fs, stage, gen, calls, prev, rangeVars, zoneVars>>

\* FanOut_File with the  if fileDir.IsDir() { continue }  of
\* parseCPUInfoGeneric.
FanOut_FileSkipDir(sub) ==
    /\ pc = sub
    /\ fan.inDir
    /\ LET e      == fan.files[fan.fi]
           p      == FilePath(fan.path, e.name)
           r      == ReadFile(p)
           value  == TrimSpace(r.content)
           f      == FieldOf(sub, e.name)
           cpuNum == fan.online[fan.ci]
           n      == ParseInt(value)
       IN  IF e.isDir
           THEN /\ fan' = FanAdvance(fan)
                /\ UNCHANGED <<pc, err, cpuInformation, logged, reads>>
           ELSE /\ reads' = Append(reads, ReadOp("ReadFile", p))
                /\ IF r.failed
                   THEN /\ cpuInformation' =
                              [cpuInformation EXCEPT ![SliceOf(sub)] = fan.slice]
                        /\ err' = AccessError(p)
                        /\ pc' = "done"
                        /\ UNCHANGED <<fan, logged>>
                   ELSE IF f = NoField
                   THEN /\ fan' = FanAdvance(fan)
                        /\ UNCHANGED <<pc, err, cpuInformation, logged>>
                   ELSE IF ~InRange(fan.slice, cpuNum)
                   THEN /\ pc' = "panic"
                        /\ UNCHANGED <<fan, err, cpuInformation, logged>>
                   ELSE /\ fan' = FanAdvance(
                             [fan EXCEPT !.slice = SetField(@, cpuNum, f.field,
                                                      IF f.int THEN n.val ELSE value)])
                        /\ logged' = IF f.int THEN LogIf(logged, n) ELSE logged
                        /\ UNCHANGED <<pc, err, cpuInformation>>
    /\ UNCHANGED <<fs, stage, gen, calls, prev, rangeVars, zoneVars>>

\* One iteration of  for _, fileDir := range files  in a per-CPU parser.
\* As in parseCPUInfoGeneric, ParseInt's error goes to the err declared in
\* the loop body and is only logged.
FanOut_File(sub) ==
    /\ pc = sub
    /\ fan.inDir
    /\ LET e      == fan.files[fan.fi]
           p      == FilePath(fan.path, e.name)
           r      == ReadFile(p)
           value  == TrimSpace(r.content)
           f      == FieldOf(sub, e.name)
           cpuNum == fan.online[fan.ci]
           n      == ParseInt(value)
       IN  /\ reads' = Append(reads, ReadOp("ReadFile", p))
           /\ IF r.failed
              THEN /\ cpuInformation' =
                         [cpuInformation EXCEPT ![SliceOf(sub)] = fan.slice]
                   /\ err' = AccessError(p)
                   /\ pc' = "done"
                   /\ UNCHANGED <<fan, logged>>
              ELSE IF f = NoField
              THEN /\ fan' = FanAdvance(fan)
                   /\ UNCHANGED <<pc, err, cpuInformation, logged>>
              ELSE IF ~InRange(fan.slice, cpuNum)
              THEN /\ pc' = "panic"
                   /\ UNCHANGED <<fan, err, cpuInformation, logged>>
              ELSE /\ fan' = FanAdvance(
                        [fan EXCEPT !.slice = SetField(@, cpuNum, f.field,
                                                 IF f.int THEN n.val ELSE value)])
                   /\ logged' = IF f.int THEN LogIf(logged, n) ELSE logged
                   /\ UNCHANGED <<pc, err, cpuInformation>>
    /\ UNCHANGED <<fs, stage, gen, calls, prev, rangeVars, zoneVars>>

\* return slice, err  and, in NewCPUInfo, the check of that err and the call
\* of the next parser (after parseCPUThermalThrottle: return cpuInformation, err).
FanOut_Return(sub, next) ==
    /\ pc = sub
    /\ ~fan.inDir
    /\ fan.ci > Len(fan.online)
    /\ cpuInformation' = [cpuInformation EXCEPT ![SliceOf(sub)] = fan.slice]
    /\ err' = fan.err
    /\ IF fan.err # Nil \/ next = "done"
       THEN /\ pc' = "done"
            /\ UNCHANGED <<stage, fan>>
       ELSE /\ pc' = next
            /\ stage' = next
            /\ fan' = FanStart(next, cpuInformation.CPUInfoGeneric.Online)
    /\ UNCHANGED <<fs, gen, reads, logged, calls, prev, rangeVars, zoneVars>>

parseCPUFreq_ReadDir == FanOut_ReadDir("cpufreq")
parseCPUFreq_File    == FanOut_File("cpufreq")
parseCPUFreq_Return  == FanOut_Return("cpufreq", "topology")

parseCPUTopology_ReadDir == FanOut_ReadDir("topology")
parseCPUTopology_File    == FanOut_File("topology")
parseCPUTopology_Return  == FanOut_Return("topology", "thermal_throttle")

parseCPUThermalThrottle_ReadDir == FanOut_ReadDir("thermal_throttle")
parseCPUThermalThrottle_File    == FanOut_File("thermal_throttle")
parseCPUThermalThrottle_Return  == FanOut_Return("thermal_throttle", "done")

\* The NewCPUInfo variables before the first call (pc = "idle"), and in the
\* specifications that make no call (pc = "off").
CpuAt(at) ==
    /\ pc = at
    /\ stage = "idle"
    /\ err = Nil
    /\ cpuInformation = ZeroCPUInfo
    /\ gen = GenIdle
    /\ fan = FanIdle
    /\ reads = <<>>
    /\ logged = <<>>
    /\ calls = 0
    /\ prev = [info |-> ZeroCPUInfo, err |-> Nil]

---------------------------------------------------------------------------
\* Inputs of SpecRange.

RECURSIVE Join(_, _)
Join(ss, sep) ==
    IF ss = <<>> THEN <<>>
    ELSE IF Len(ss) = 1 THEN ss[1]
    ELSE ss[1] \o <<sep>> \o Join(Tail(ss), sep)

SeqsUpTo(S, n) == UNION {[1..k -> S] : k \in 0..n}

\* The numbers a well-formed component is written with: small ones, the
\* largest int64 and the first number beyond it.
RangeNums == {0, 1, 2, MaxInt64, MaxInt64 + 1}

\* The well-formed components N-M, N <= M.
RangePairs == {p \in RangeNums \X RangeNums : p[1] <= p[2]}

Render(pairs) ==
    Join([k \in 1..Len(pairs) |->
            FormatInt(pairs[k][1]) \o <<"-">> \o FormatInt(pairs[k][2])], ",")

\* Inputs that are not lists of N-M components.
Malformed ==
    { <<>>, <<"3">>, <<"x">>, <<"-">>, <<"0", "-", "x">>, <<"x", "-", "2">>,
      <<"2", "-", "0">>, <<"0", "-", "1", ",", "3">>, <<"3", ",", "0", "-", "1">>,
      <<"0", "-", "1", ",">>, <<"0", "-", "2", "-", "3">>, <<"+", "1", "-", "2">>,
      <<"x", "-", "1", ",", "0", "-", "0">> }

RangeInputs ==
    { [valid |-> TRUE, pairs |-> ps, value |-> Render(ps)] :
        ps \in SeqsUpTo(RangePairs, MaxComps) \ {<<>>} }
    \cup { [valid |-> FALSE, pairs |-> <<>>, value |-> v] : v \in Malformed }


InitRange ==
    /\ rin \in RangeInputs
    /\ rng = RangeStart(rin.value)
    /\ zin = [open |-> FALSE, lines |-> <<>>, text |-> <<>>]
    /\ zst = ZoneAt("off")
    /\ fs = << >>
    /\ CpuAt("off")

parseCPURange_Component ==
    /\ rng.pc = "component"
    /\ rng' = RangeComponent(rng)
    /\ UNCHANGED <<rin, zoneVars, cpuVars>>

parseCPURange_Loop ==
    /\ rng.pc = "loop"
    /\ rng' = RangeLoop(rng)
    /\ UNCHANGED <<rin, zoneVars, cpuVars>>

NextRange == parseCPURange_Component \/ parseCPURange_Loop

SpecRange == InitRange /\ [][NextRange]_vars

---------------------------------------------------------------------------
\* Inputs of SpecZone.

ZoneLines ==
    { <<"N", "o", "d", "e", " ", "0", ",", " ", "z", "o", "n", "e", " ", "D", "M", "A">>,
      <<"N", "o", "d", "e", " ", "1", ",", " ", " ", "z", "o", "n", "e", "\t", "N", ",", " ", "x">>,
      <<" ", " ", "f", "r", "e", "e", " ", "3">>,
      <<"N", "o", "d", "e", " ", "0", ",">>,
      <<"N", "o", "d", "e">>,
      <<"N", "o", "d", "e", "X", " ", "a", " ", "b", " ", "c">>,
      <<>>,
      <<" ", "N", "o", "d", "e", " ", "0", ",", " ", "z", "o", "n", "e", " ", "D">>,
      <<"N", "o", "d", "e", " ", "2", ",", ",", " ", "z", "o", "n", "e", " ", "H", ",", ",">>,
      <<"N", "o", "d", "e", " ", ",", " ", "z", " ", ",">>,
      <<"N", "o", "d", "e", " ", "3", ",", " ", "z", "o", "n", "e", " ", "D", "\r">>,
      <<"N", "o", "d", "e", " ", "0", ",", " ", "z", "o", "n", "e">> }

\* Every line ends in a line feed, except possibly a non-empty last one.
ZoneInputs ==
    { [open |-> FALSE, lines |-> <<>>, text |-> <<>>] } \cup
    { [open |-> TRUE, lines |-> ls,
       text  |-> Join(ls, "\n") \o (IF nl THEN <<"\n">> ELSE <<>>)] :
        <<ls, nl>> \in
          { q \in SeqsUpTo(ZoneLines, MaxLines) \X BOOLEAN :
              /\ q[1] = <<>> => ~q[2]
              /\ (q[1] # <<>> /\ q[1][Len(q[1])] = <<>>) => q[2] } }


InitZone ==
    /\ zin \in ZoneInputs
    /\ zst = ZoneAt("idle")
    /\ rin = [valid |-> FALSE, pairs |-> <<>>, value |-> <<>>]
    /\ rng = RangeOff
    /\ fs = << >>
    /\ CpuAt("off")

NewZoneInfo ==
    /\ zst.pc = "idle" \/ (zst.pc = "done" /\ zst.calls < NumCalls)
    /\ zst' = ZoneStart(zst, zin)
    /\ UNCHANGED <<zin, rangeVars, cpuVars>>

parseZoneInfo ==
    /\ zst.pc = "scan"
    /\ zst' = ZoneScan(zst)
    /\ UNCHANGED <<zin, rangeVars, cpuVars>>

NextZone == NewZoneInfo \/ parseZoneInfo

SpecZone == InitZone /\ [][NextZone]_vars

---------------------------------------------------------------------------
\* The filesystems of Spec.

NoFiles == << >>

\* A directory at path with the given children, [name, node] in name order.
RECURSIVE Children(_, _)
Children(path, items) ==
    IF items = <<>> THEN NoFiles
    ELSE (FilePath(path, Head(items).name) :> Head(items).node)
         @@ Children(path, Tail(items))

Listing(items) ==
    [k \in 1..Len(items) |->
        [name |-> items[k].name, isDir |-> items[k].node.kind = "dir"]]

MkDir(path, ok, items) ==
    (path :> DirNode(ok, Listing(items))) @@ Children(path, items)

Item(name, node) == [name |-> <<name>>, node |-> node]

\* File contents, as the kernel writes them (with a line feed).
Good3       == <<"3", "\n">>
Good5       == <<"5", "\n">>
Unsupported == <<"<unsupported>", "\n">>
EmptyLine   == <<"\n">>
OutOfRange  == FormatInt(MaxInt64) \o <<"0", "\n">>
NotANumber  == <<"x", "\n">>
Driver      == <<"intel_pstate", "\n">>
Governor    == <<"powersave", "\n">>
Siblings    == <<"0", "-", "1", "\n">>

Absent == [exists |-> FALSE, ok |-> FALSE, items |-> <<>>]
Dir(ok, items) == [exists |-> TRUE, ok |-> ok, items |-> items]

FreqFixture ==
    Dir(TRUE, <<Item("cpuinfo_cur_freq", FileNode(TRUE, Good3)),
                Item("scaling_driver", FileNode(TRUE, Driver)),
                Item("scaling_setspeed", FileNode(TRUE, Unsupported))>>)
FreqRange ==
    Dir(TRUE, <<Item("cpuinfo_max_freq", FileNode(TRUE, OutOfRange)),
                Item("scaling_governor", FileNode(TRUE, Governor))>>)
FreqStats ==
    Dir(TRUE, <<Item("scaling_driver", FileNode(TRUE, Driver)),
                Item("stats", DirNode(TRUE, <<>>))>>)
FreqUnknown == Dir(TRUE, <<Item("affected_cpus", FileNode(TRUE, Good3))>>)
FreqEmpty == Dir(TRUE, <<Item("cpuinfo_min_freq", FileNode(TRUE, EmptyLine))>>)

TopologyFixture ==
    Dir(TRUE, <<Item("core_id", FileNode(TRUE, Good3)),
                Item("core_siblings_list", FileNode(TRUE, Siblings)),
                Item("physical_package_id", FileNode(TRUE, NotANumber))>>)
TopologyUnlistable == Dir(FALSE, <<>>)
TopologyUnreadable ==
    Dir(TRUE, <<Item("core_id", FileNode(TRUE, Good5)),
                Item("core_siblings", FileNode(FALSE, <<>>))>>)

ThermalFixture ==
    Dir(TRUE, <<Item("core_throttle_count", FileNode(TRUE, Good3)),
                Item("package_throttle_count", FileNode(TRUE, Good5))>>)
ThermalBad ==
    Dir(TRUE, <<Item("core_throttle_count", FileNode(TRUE, OutOfRange)),
                Item("package_throttle_count", FileNode(FALSE, <<>>))>>)

CpuConfig(f, t, h) == [cpufreq |-> f, topology |-> t, thermal_throttle |-> h]

\* What one cpu<N> directory may hold.
NoCpuDir == CpuConfig(Absent, Absent, Absent)
FixtureCpu == CpuConfig(FreqFixture, TopologyFixture, ThermalFixture)
CpuConfigs ==
    { NoCpuDir,
      FixtureCpu,
      CpuConfig(FreqRange, TopologyFixture, Absent),
      CpuConfig(FreqStats, TopologyFixture, ThermalFixture),
      CpuConfig(FreqUnknown, TopologyUnreadable, ThermalFixture),
      CpuConfig(FreqEmpty, TopologyUnlistable, ThermalBad) }

\* The subsystem directories of a cpu<N> directory, in name order.
SubItems(c) ==
    LET one(sub) == IF c[sub].exists
                    THEN <<Item(sub, DirNode(c[sub].ok, Listing(c[sub].items)))>>
                    ELSE <<>>
    IN  one("cpufreq") \o one("thermal_throttle") \o one("topology")

CpuName(n) == <<"cpu">> \o FormatInt(n)

\* The files below devices/system/cpu/cpu<n>.
CpuTree(n, c) ==
    LET cpuPath == FilePath(CPURoot, CpuName(n))
        sub(s)  == IF c[s].exists
                   THEN MkDir(FilePath(cpuPath, <<s>>), c[s].ok, c[s].items)
                   ELSE NoFiles
    IN  IF SubItems(c) = <<>> THEN NoFiles
        ELSE sub("cpufreq") @@ sub("topology") @@ sub("thermal_throttle")
             @@ MkDir(cpuPath, TRUE, SubItems(c))

RECURSIVE CpuTrees(_, _)
CpuTrees(tree, n) ==
    IF n > MaxCPU THEN NoFiles ELSE CpuTree(n, tree[n]) @@ CpuTrees(tree, n + 1)

RECURSIVE CpuDirItems(_, _)
CpuDirItems(tree, n) ==
    IF n > MaxCPU THEN <<>>
    ELSE (IF SubItems(tree[n]) = <<>> THEN <<>>
          ELSE <<[name |-> CpuName(n),
                  node |-> DirNode(TRUE, Listing(SubItems(tree[n])))]>>)
         \o CpuDirItems(tree, n + 1)

\* A file of the CPU root: absent, unreadable, or holding content.
NoFile == [exists |-> FALSE, ok |-> FALSE, content |-> <<>>]
Unreadable == [exists |-> TRUE, ok |-> FALSE, content |-> <<>>]
Holds(c) == [exists |-> TRUE, ok |-> TRUE, content |-> c]

RootFileItems(root) ==
    LET one(name) == IF root[name].exists
                     THEN <<Item(name, FileNode(root[name].ok, root[name].content))>>
                     ELSE <<>>
    IN  one("kernel_max") \o one("offline") \o one("online") \o one("possible")
        \o one("present") \o one("uevent")

MkFS(root, tree) ==
    CpuTrees(tree, 0)
    @@ MkDir(CPURoot, root.ok, CpuDirItems(tree, 0) \o RootFileItems(root))

\* The online CPUs, as lists of ranges: from 0 and contiguous, not from 0,
\* with a gap, with a CPU twice, and a single CPU.
OnlineLists ==
    { << <<0, 1>> >>, << <<0, MaxCPU>> >>, << <<1, MaxCPU>> >>,
      << <<0, 0>>, <<MaxCPU, MaxCPU>> >>, << <<0, 1>>, <<1, 1>> >>,
      << <<MaxCPU, MaxCPU>> >> }

OnlineFiles ==
    { Holds(Render(ps) \o <<"\n">>) : ps \in OnlineLists }
    \cup { NoFile, Holds(<<"1", "\n">>) }

Root(ok, kernelMax, offline, online, possible, present, uevent) ==
    [ok |-> ok, kernel_max |-> kernelMax, offline |-> offline, online |-> online,
     possible |-> possible, present |-> present, uevent |-> uevent]

AllCpus == Holds(Render(<< <<0, MaxCPU>> >>) \o <<"\n">>)

\* Roots that differ in the online file only.
PlainRoots ==
    { Root(TRUE, Holds(Good5), NoFile, o, AllCpus, AllCpus, NoFile) : o \in OnlineFiles }

\* Roots that differ in the other files.
RichRoots ==
    { Root(TRUE, k, f, o, AllCpus, p, u) :
        k \in {NoFile, Unreadable, Holds(Good5), Holds(NotANumber), Holds(OutOfRange),
               Holds(EmptyLine)},
        f \in {NoFile, Unreadable, Holds(<<"3", "-", "3", "\n">>)},
        o \in {AllCpus, Unreadable},
        p \in {AllCpus, Holds(<<"0", "\n">>)},
        u \in {NoFile, Unreadable, Holds(EmptyLine)} }
    \cup { Root(FALSE, Holds(Good5), NoFile, AllCpus, AllCpus, AllCpus, NoFile) }

Trees == [0..MaxCPU -> CpuConfigs]

PlainTrees ==
    { [n \in 0..MaxCPU |-> NoCpuDir], [n \in 0..MaxCPU |-> FixtureCpu] }

FileSystems ==
    { MkFS(r, t) : r \in PlainRoots, t \in Trees }
    \cup { MkFS(r, t) : r \in RichRoots, t \in PlainTrees }

Init ==
    /\ fs \in FileSystems
    /\ CpuAt("idle")
    /\ rin = [valid |-> FALSE, pairs |-> <<>>, value |-> <<>>]
    /\ rng = RangeOff
    /\ zin = [open |-> FALSE, lines |-> <<>>, text |-> <<>>]
    /\ zst = ZoneAt("off")

Next ==
    \/ NewCPUInfo
    \/ parseCPUInfoGeneric_File
    \/ parseCPUInfoGeneric_Return
    \/ parseCPUFreq_ReadDir
    \/ parseCPUFreq_File
    \/ parseCPUFreq_Return
    \/ parseCPUTopology_ReadDir
    \/ parseCPUTopology_File
    \/ parseCPUTopology_Return
    \/ parseCPUThermalThrottle_ReadDir
    \/ parseCPUThermalThrottle_File
    \/ parseCPUThermalThrottle_Return

Spec == Init /\ [][Next]_vars

\* Either reader, called NumCalls times.
InitReads == Init \/ InitZone

NextReads == Next \/ NextZone

SpecReads == InitReads /\ [][NextReads]_vars

---------------------------------------------------------------------------
\* Range expansion.

\* N, N+1, ..., M
Span(n, m) == [k \in 1..(m - n + 1) |-> n + k - 1]

RECURSIVE ExpectedExpansion(_)
ExpectedExpansion(pairs) ==
    IF pairs = <<>> THEN <<>>
    ELSE Span(pairs[1][1], pairs[1][2]) \o ExpectedExpansion(Tail(pairs))

RECURSIVE SpanCount(_)
SpanCount(pairs) ==
    IF pairs = <<>> THEN 0
    ELSE (pairs[1][2] - pairs[1][1] + 1) + SpanCount(Tail(pairs))

\* C1: for an input that is a comma-separated list of components N-M with
\* 0 <= N <= M, the list parseCPURange returns is the concatenation, in
\* component order, of N, N+1, ..., M for each component; its length is the
\* sum of the spans, and a value that occurs in two components occurs twice.
C1_RangeExpansion ==
    (rin.valid /\ rng.pc = "done") =>
        /\ rng.cpuSlice = ExpectedExpansion(rin.pairs)
        /\ Len(rng.cpuSlice) = SpanCount(rin.pairs)

\* "0-2,2-2" has been expanded to [0, 1, 2, 2].
C1_Witness ==
    /\ rng.pc = "done"
    /\ rin.valid
    /\ rin.pairs = << <<0, 2>>, <<2, 2>> >>
    /\ rng.cpuSlice = <<0, 1, 2, 2>>

---------------------------------------------------------------------------
\* Zone-info parsing.

\* The line starts with the characters N, o, d, e.
StartsWithNode(l) ==
    Len(l) >= 4 /\ l[1] = "N" /\ l[2] = "o" /\ l[3] = "d" /\ l[4] = "e"

\* The whitespace-separated fields of a line, as index intervals.
Words(l) ==
    { w \in (1..Len(l)) \X (1..Len(l)) :
        /\ w[1] <= w[2]
        /\ \A k \in w[1]..w[2] : ~IsSpace(l[k])
        /\ w[1] = 1 \/ IsSpace(l[w[1] - 1])
        /\ w[2] = Len(l) \/ IsSpace(l[w[2] + 1]) }

\* The n-th field of a line that has one.
Word(l, n) ==
    LET w == CHOOSE w \in Words(l) :
                 Cardinality({v \in Words(l) : v[1] < w[1]}) = n - 1
    IN  SubSeq(l, w[1], w[2])

\* The field without the commas it ends in.
WithoutTrailingCommas(f) ==
    LET k == CHOOSE k \in 0..Len(f) :
                 /\ k = 0 \/ f[k] # ","
                 /\ \A j \in (k + 1)..Len(f) : f[j] = ","
    IN  SubSeq(f, 1, k)

NodeLines(lines) == SelectSeq(lines, StartsWithNode)

ExpectedZones(lines) ==
    [k \in 1..Len(NodeLines(lines)) |->
        [Node |-> WithoutTrailingCommas(Word(NodeLines(lines)[k], 2)),
         Zone |-> WithoutTrailingCommas(Word(NodeLines(lines)[k], 4))]]

ShortNodeLine(l) == StartsWithNode(l) /\ Cardinality(Words(l)) < 4

HasShortNodeLine == \E k \in 1..Len(zin.lines) : ShortNodeLine(zin.lines[k])

\* C2: when every line of the input that begins with Node has at least 4
\* fields, parseZoneInfo returns one record per such line, in file order, with
\* node the 2nd field and zone the 4th field, each without its trailing
\* commas; the other lines contribute nothing.
C2_ZoneRecords ==
    (zin.open /\ ~HasShortNodeLine) =>
        /\ zst.pc # "panic"
        /\ zst.pc = "done" =>
              /\ zst.zoneInfo = ExpectedZones(zin.lines)
              /\ zst.err = "nil"

\* A Node line and another line have been read: one record, {0, DMA}.
C2_Witness ==
    /\ zst.pc = "done"
    /\ Len(zin.lines) = 2
    /\ ~StartsWithNode(zin.lines[2])
    /\ zst.zoneInfo = <<[Node |-> <<"0">>, Zone |-> <<"D", "M", "A">>]>>

\* C10: for an input with a line that begins with Node and has fewer than 4
\* fields, parseZoneInfo returns an error to its caller and does not end in
\* an index-out-of-range panic.
C10_MalformedLineSignalled ==
    (zin.open /\ HasShortNodeLine) =>
        /\ zst.pc # "panic"
        /\ zst.pc = "done" => zst.err # "nil"

---------------------------------------------------------------------------
\* NewCPUInfo: what the claims speak of.

FanStages == {"cpufreq", "topology", "thermal_throttle"}

StageIndex(st) ==
    CASE st = "idle" -> 0 [] st = "generic" -> 1 [] st = "cpufreq" -> 2
      [] st = "topology" -> 3 [] st = "thermal_throttle" -> 4

\* The online list the per-CPU parsers are given.
Online == cpuInformation.CPUInfoGeneric.Online

\* The directory does not exist or cannot be listed.
DirMissing(path) ==
    path \notin DOMAIN fs \/ fs[path].kind # "dir" \/ ~fs[path].ok

\* The file does not exist, is a directory, or cannot be read.
ReadFails(path) ==
    path \notin DOMAIN fs \/ fs[path].kind # "file" \/ ~fs[path].ok

\* A per-CPU parser is about to list the directory of the CPU online[ci].
AtCpu == pc \in FanStages /\ ~fan.inDir /\ fan.ci <= Len(fan.online)

\* A per-CPU parser is about to read the file files[fi] of that directory.
AtFile == pc \in FanStages /\ fan.inDir

CurCpu  == fan.online[fan.ci]
CurName == fan.files[fan.fi].name
CurPath == FilePath(fan.path, CurName)

\* parseCPUInfoGeneric is about to read a non-directory entry of the root.
AtRootFile ==
    pc = "generic" /\ gen.k <= Len(gen.files) /\ ~gen.files[gen.k].isDir

RootName == gen.files[gen.k].name
RootPath == FilePath(CPURoot, RootName)

\* The parser of this subsystem has returned to NewCPUInfo.
HasReturned(sub) ==
    \/ StageIndex(stage) > StageIndex(sub)
    \/ stage = sub /\ pc = "done"

\* C3, the step: a per-CPU parser that finds the subsystem directory of an
\* online CPU missing or unlistable goes on to the next CPU; no record, no
\* error and nothing of the result changes.
C3_SkipStep ==
    (AtCpu /\ DirMissing(SubsystemPath(CurCpu, pc))) =>
        /\ pc' = pc
        /\ fan'.slice = fan.slice
        /\ fan'.ci = fan.ci + 1
        /\ ~fan'.inDir
        /\ fan'.err = Nil
        /\ err' = err
        /\ cpuInformation' = cpuInformation

\* C3, the result: after a call that succeeded, the record of an online CPU
\* whose subsystem directory is missing holds the zero values.
C3_DefaultRecord ==
    (pc = "done" /\ err = Nil /\ stage = "thermal_throttle") =>
        \A sub \in FanStages : \A k \in 1..Len(Online) :
            (DirMissing(SubsystemPath(Online[k], sub)) /\ Online[k] < Len(Online))
                => cpuInformation[SliceOf(sub)][Online[k] + 1] = ZeroOf(sub)

\* C3, the whole read: when no online CPU has any subsystem directory, a
\* call that got past the enumeration ends with a nil error.
C3_ReadSucceeds ==
    (/\ pc \in {"done", "panic"}
     /\ stage \in FanStages
     /\ \A sub \in FanStages : \A k \in 1..Len(Online) :
            DirMissing(SubsystemPath(Online[k], sub)))
        => (pc = "done" /\ err = Nil /\ stage = "thermal_throttle")

\* C3: absence of a subsystem directory is normal: the CPU is skipped, its
\* record keeps the zero values (both thermal-throttle counters are 0), the
\* other online CPUs are processed and the read succeeds with a nil error.
C3_AbsenceIsNormal ==
    [](C3_DefaultRecord /\ C3_ReadSucceeds) /\ [][C3_SkipStep]_vars

\* A call succeeded: CPU 0 has no thermal_throttle directory and its counters
\* are 0, CPU 1 has one and its counters were read.
C3_Witness ==
    /\ pc = "done" /\ err = Nil /\ stage = "thermal_throttle"
    /\ Online = <<0, 1>>
    /\ DirMissing(SubsystemPath(0, "thermal_throttle"))
    /\ ~DirMissing(SubsystemPath(0, "cpufreq"))
    /\ cpuInformation.CPUThermalThrottleSlice[1] = ZeroCPUThermalThrottle
    /\ cpuInformation.CPUThermalThrottleSlice[2] =
           [CoreThrottleCount |-> 3, PackageThrottleCount |-> 5]

\* A per-CPU parser is about to read a numeric file whose trimmed content
\* does not convert to an int64.
AtBadNumber ==
    /\ AtFile
    /\ ~ReadFails(CurPath)
    /\ FieldOf(pc, CurName).int
    /\ ParseInt(TrimSpace(fs[CurPath].content)).err # "nil"

\* C4: a numeric file of a per-CPU parser whose trimmed content does not
\* convert to an int64 (text, nothing, a number out of range) is not fatal:
\* the field is left at 0, the parser goes on with the next file or CPU and
\* its error stays nil.  Stated for the CPUs whose number indexes the list,
\* the ones the parser has a record for.
C4_SoftConversionFailure ==
    [][(AtBadNumber /\ InRange(fan.slice, CurCpu)) =>
          /\ pc' = pc
          /\ fan'.err = Nil
          /\ err' = err
          /\ fan' = FanAdvance([fan EXCEPT !.slice = fan'.slice])
          /\ fan'.slice[CurCpu + 1][FieldOf(pc, CurName).field] = 0]_vars

\* C5, the listing: a call that cannot list the CPU root ends with an error
\* naming the root.
C5_RootStep ==
    (calls' = calls + 1 /\ DirMissing(CPURoot)) =>
        /\ pc' = "done"
        /\ err' # Nil
        /\ err'.path = CPURoot
        /\ cpuInformation' = ZeroCPUInfo

\* C5, a file: a non-directory entry that cannot be read ends the call there
\* with an error naming it, whatever its name; a readable file with a name
\* the switch does not know changes no field.
C5_FileStep ==
    AtRootFile =>
        /\ reads' = Append(reads, ReadOp("ReadFile", RootPath))
        /\ ReadFails(RootPath) =>
              /\ pc' = "done"
              /\ err' # Nil
              /\ err'.path = RootPath
              /\ cpuInformation' = [cpuInformation EXCEPT !.CPUInfoGeneric = gen.info]
        /\ (~ReadFails(RootPath) /\ RootName \notin GenericLabels) =>
              /\ pc' = pc
              /\ gen'.info = gen.info
              /\ gen'.k = gen.k + 1
              /\ err' = err

\* C5, directories: a directory entry of the root is passed over without a
\* read, and no read of the enumeration is a read of a directory's content.
C5_DirStep ==
    (pc = "generic" /\ gen.k <= Len(gen.files) /\ gen.files[gen.k].isDir) =>
        /\ reads' = reads
        /\ gen'.info = gen.info
        /\ gen'.k = gen.k + 1
        /\ pc' = pc

C5_NoDirRead ==
    stage = "generic" =>
        \A i \in 1..Len(reads) :
            reads[i].op = "ReadFile" =>
                ~(reads[i].path \in DOMAIN fs /\ fs[reads[i].path].kind = "dir")

\* C5: parseCPUInfoGeneric ends with an error naming the path when the root
\* cannot be listed or a non-directory entry cannot be read; it reads no
\* directory entry, and an unrecognized readable file changes nothing.
C5_Enumeration ==
    []C5_NoDirRead /\ [][C5_RootStep /\ C5_FileStep /\ C5_DirStep]_vars

\* The call ended in the enumeration at the unreadable file uevent, after
\* it had passed over cpu directories and read the files before it.
C5_Witness ==
    /\ pc = "done" /\ stage = "generic"
    /\ err = AccessError(FilePath(CPURoot, <<"uevent">>))
    /\ gen.files[1].isDir
    /\ Len(reads) > 2
    /\ cpuInformation.CPUInfoGeneric.KernelMax = 5

\* C6, the step: a file of a subsystem directory that cannot be read ends
\* the parser and the call at once with an error naming the file.
C6_FatalStep ==
    (AtFile /\ ReadFails(CurPath)) =>
        /\ pc' = "done"
        /\ err' # Nil
        /\ err'.path = CurPath
        /\ cpuInformation' = [cpuInformation EXCEPT ![SliceOf(pc)] = fan.slice]
        /\ reads' = Append(reads, ReadOp("ReadFile", CurPath))
        /\ fan' = fan

\* C6, afterwards: the failed read is the last read of the call.
C6_NothingAfter ==
    (pc = "done" /\ stage \in FanStages /\ err # Nil) =>
        reads[Len(reads)] = ReadOp("ReadFile", err.path)

\* C6: an unreadable file in an online CPU's subsystem directory stops the
\* per-CPU parser immediately: no further file or CPU is processed, and
\* NewCPUInfo returns a non-nil error naming the file.
C6_FanOutFatal ==
    []C6_NothingAfter /\ [][C6_FatalStep]_vars

\* parseCPUTopology failed on a file of the first of several online CPUs.
C6_Witness ==
    /\ pc = "done" /\ stage = "topology"
    /\ err = AccessError(FilePath(SubsystemPath(0, "topology"), <<"core_siblings">>))
    /\ fan.ci = 1 /\ Len(fan.online) > 1
    /\ fan.fi < Len(fan.files) + 1

\* C7: after a call that returned a nil error each of the three per-CPU lists
\* is as long as the online list; and the list a per-CPU parser returns, and
\* the one it is filling, is that long on every path, error returns included.
C7_Sizing ==
    /\ (pc = "done" /\ err = Nil) =>
          \A sub \in FanStages : Len(cpuInformation[SliceOf(sub)]) = Len(Online)
    /\ \A sub \in FanStages :
          HasReturned(sub) => Len(cpuInformation[SliceOf(sub)]) = Len(Online)
    /\ pc \in FanStages => (fan.online = Online /\ Len(fan.slice) = Len(Online))

\* parseCPUTopology returned an error and a list of len(online) = 3 records
\* for the online CPUs 0, 1, 1.
C7_Witness ==
    /\ pc = "done" /\ stage = "topology" /\ err # Nil
    /\ Online = <<0, 1, 1>>
    /\ Len(cpuInformation.CPUTopologySlice) = 3
    /\ Len(cpuInformation.CPUFreqSlice) = 3

\* C8, the result: a second call on the unchanged filesystem returns what
\* the first returned, error and records alike.
C8_SameResult ==
    /\ (calls >= 2 /\ pc = "done") =>
          [info |-> cpuInformation, err |-> err] = prev
    /\ (zst.calls >= 2 /\ zst.pc = "done") =>
          [zoneInfo |-> zst.zoneInfo, err |-> zst.err] = zst.prev

\* C8: reading twice yields equal results, and no call changes the
\* filesystem.
C8_Idempotent ==
    []C8_SameResult /\ [][fs' = fs /\ zin' = zin]_vars

\* The second call returned, with records read for two CPUs.
C8_Witness ==
    /\ calls = 2 /\ pc = "done" /\ err = Nil
    /\ Len(cpuInformation.CPUFreqSlice) >= 2
    /\ cpuInformation.CPUFreqSlice[2] # ZeroCPUFreq
    /\ cpuInformation.CPUTopologySlice[1] # ZeroCPUTopology
    /\ logged # <<>>

KernelMaxPath == FilePath(CPURoot, <<"kernel_max">>)

\* kernel_max is read and its trimmed content does not parse.
KernelMaxFails ==
    /\ ~DirMissing(CPURoot)
    /\ ~ReadFails(KernelMaxPath)
    /\ ParseInt(TrimSpace(fs[KernelMaxPath].content)).err # "nil"

\* C9: when kernel_max does not parse as an integer, parseCPUInfoGeneric
\* returns that failure: the err NewCPUInfo receives is not nil.
C9_KernelMaxFailureReported ==
    [][(pc = "generic" /\ gen.k > Len(gen.files) /\ KernelMaxFails)
          => err' # Nil]_vars

---------------------------------------------------------------------------
\* Malformed range components.

\* C11: parseCPURange returns a list for every input string: a malformed
\* component (the empty string, a bare number, text without a hyphen) is only
\* logged, the call does not abort on it, and by the time the call returns
\* every component of the input has been taken up.
C11_RangeNeverAborts ==
    /\ rng.pc # "panic"
    /\ rng.pc = "done" => rng.comps = <<>>

---------------------------------------------------------------------------
\* The per-CPU lists: where a value is written.

\* A per-CPU parser is about to read a readable file that its switch knows.
AtField ==
    /\ AtFile
    /\ ~ReadFails(CurPath)
    /\ FieldOf(pc, CurName) # NoField

\* The value the switch stores for the file: the number ParseInt returns for
\* a numeric field, the trimmed content for a text field.
CurValue ==
    LET value == TrimSpace(fs[CurPath].content)
    IN  IF FieldOf(pc, CurName).int THEN ParseInt(value).val ELSE value

\* C12: the value parsed from a file of the online CPU number N is written
\* into the record at index N of the list, whatever N's position in the
\* online list, and no record at another index changes.
C12_IndexingContract ==
    [][AtField =>
          /\ Len(fan'.slice) = Len(fan.slice)
          /\ InRange(fan'.slice, CurCpu)
          /\ fan'.slice[CurCpu + 1][FieldOf(pc, CurName).field] = CurValue
          /\ \A k \in 1..Len(fan.slice) :
                k # CurCpu + 1 => fan'.slice[k] = fan.slice[k]]_vars

\* C13: every write of a per-CPU parser into its list addresses an index
\* below the list's length, so the list holds a record for every online CPU
\* whose subsystem directory has a recognized file, and no call ends in a
\* per-CPU parser with an index out of range.
C13_InBoundsWrites ==
    /\ AtField => InRange(fan.slice, CurCpu)
    /\ ~(pc = "panic" /\ stage \in FanStages)

---------------------------------------------------------------------------
\* The order of the stages of NewCPUInfo.

IsPrefix(p, q) == Len(p) <= Len(q) /\ SubSeq(q, 1, Len(p)) = p

\* The stage a read belongs to: a read at or below cpu<N>/<sub> belongs to
\* the per-CPU parser of sub, every other read to the enumeration.
ReadStage(path) ==
    LET root  == Len(CPURoot)
        slash == {k \in (root + 3)..Len(path) : path[k] = "/"}
        at    == CHOOSE k \in slash : \A m \in slash : k <= m
    IN  IF /\ IsPrefix(CPURoot \o <<"/", "cpu">>, path)
           /\ slash # {}
           /\ at > root + 3
           /\ at < Len(path)
           /\ \A k \in (root + 3)..(at - 1) : path[k] \in Digit
           /\ path[at + 1] \in FanStages
        THEN path[at + 1]
        ELSE "generic"

\* C14, the state: a call begins with the listing of the CPU root; the
\* latest read belongs to the running stage or to an earlier one; and a
\* per-CPU parser runs only in its own stage, over the online list the
\* enumeration produced, while no error has been returned.
C14_StageState ==
    /\ stage # "idle" =>
          /\ reads[1] = ReadOp("ReadDir", CPURoot)
          /\ StageIndex(ReadStage(reads[Len(reads)].path)) <= StageIndex(stage)
    /\ pc \in FanStages => (pc = stage /\ err = Nil /\ fan.online = Online)

\* C14, the reads: within a call the log of reads only grows, and each read
\* is made by the running stage: it belongs to that stage and, for a per-CPU
\* parser, lies below the directory of a CPU of the online list.
C14_ReadStep ==
    (reads' # reads /\ calls' = calls) =>
        LET new == reads'[Len(reads')]
        IN  /\ reads' = Append(reads, new)
            /\ pc = stage
            /\ ReadStage(new.path) = stage
            /\ stage \in FanStages =>
                  \E k \in 1..Len(Online) :
                      IsPrefix(SubsystemPath(Online[k], stage), new.path)

\* C14, the stages: the stage changes only to the enumeration, at the start
\* of a call, or to the next stage with a nil error and no read; a call that
\* ends with an error ends in the stage whose read failed; and once the call
\* has returned nothing happens but a new call.
C14_StageStep ==
    /\ stage' # stage =>
          \/ stage' = "generic" /\ calls' = calls + 1
          \/ /\ StageIndex(stage') = StageIndex(stage) + 1
             /\ err = Nil /\ err' = Nil
             /\ pc' = stage'
             /\ reads' = reads
             /\ fan'.online = cpuInformation'.CPUInfoGeneric.Online
    /\ (pc # "done" /\ pc' = "done" /\ err' # Nil) =>
          /\ stage' = (IF pc = "idle" THEN "generic" ELSE stage)
          /\ ReadStage(err'.path) = stage'
          /\ reads'[Len(reads')].path = err'.path
    /\ pc = "done" => calls' = calls + 1

\* C14: NewCPUInfo parses the enumeration first, then runs parseCPUFreq,
\* parseCPUTopology and parseCPUThermalThrottle in that order over the online
\* list of the enumeration; a stage starts only after every earlier stage
\* returned a nil error, and after a fatal error no later stage reads anything
\* and the call returns that error.
C14_StageOrdering ==
    []C14_StageState /\ [][C14_ReadStep /\ C14_StageStep]_vars

\* The call failed in parseCPUTopology after the enumeration and parseCPUFreq
\* had read their files; parseCPUThermalThrottle read nothing.
C14_Witness ==
    /\ pc = "done" /\ stage = "topology" /\ err # Nil
    /\ reads[Len(reads)] = ReadOp("ReadFile", err.path)
    /\ \E i \in 1..Len(reads) :
          reads[i].op = "ReadFile" /\ ReadStage(reads[i].path) = "generic"
    /\ \E i \in 1..Len(reads) :
          reads[i].op = "ReadFile" /\ ReadStage(reads[i].path) = "cpufreq"
    /\ \A i \in 1..Len(reads) : ReadStage(reads[i].path) # "thermal_throttle"
    /\ cpuInformation.CPUThermalThrottleSlice = <<>>
    /\ Len(Online) = 2

---------------------------------------------------------------------------
\* Termination of the expansion loop.

\* C15: the expansion loop of parseCPURange finishes for every input: each
\* iteration moves the counter up towards the bound of its component, so
\* that the loop is left after finitely many appends and the result never
\* outgrows memory, also when the bound is the largest int64.
C15_RangeTerminates ==
    /\ [][(rng.pc = "loop" /\ rng'.pc = "loop") => rng'.i > rng.i]_vars
    /\ [](rng.pc # "oom")

---------------------------------------------------------------------------
\* Directories inside a subsystem directory.

\* C16, the listing: a per-CPU parser goes through every entry that ReadDir
\* listed, directories included.
C16_EveryEntry ==
    AtFile => fan.files = fs[fan.path].entries

\* C16, the step: an entry of a subsystem directory that is itself a
\* directory is read as a file; the read fails and the call ends with an
\* error naming the entry.
C16_DirEntryStep ==
    (AtFile /\ fan.files[fan.fi].isDir) =>
        /\ fs[CurPath].kind = "dir"
        /\ reads' = Append(reads, ReadOp("ReadFile", CurPath))
        /\ pc' = "done"
        /\ stage' = stage
        /\ err' = AccessError(CurPath)

\* C16: the per-CPU parsers do not skip directory entries as the enumeration
\* does: a directory inside cpu<N>/cpufreq, cpu<N>/topology or
\* cpu<N>/thermal_throttle makes NewCPUInfo return an error, while a
\* directory entry of the CPU root is passed over without a read.
C16_SubdirectoryIsFatal ==
    []C16_EveryEntry /\ [][C16_DirEntryStep /\ C5_DirStep]_vars

\* The call ended in parseCPUFreq at the directory cpu0/cpufreq/stats, after
\* the file before it had been read and cpu directories of the root had
\* been passed over.
C16_Witness ==
    /\ pc = "done" /\ stage = "cpufreq"
    /\ err = AccessError(FilePath(SubsystemPath(0, "cpufreq"), <<"stats">>))
    /\ fs[err.path].kind = "dir"
    /\ fs[err.path].ok
    /\ fan.slice[1].ScalingDriver # <<>>
    /\ gen.files[1].isDir

=============================================================================
